---- MODULE Spec2Model ----
(***************************************************************************)
(* lex-intel: the publish queue (the publish_queue table of lib/db.py and  *)
(* the drain loop of lib/publish.py that dispatches its items to platform  *)
(* publishers) and the deduplication of scraped candidates (dedup_titles   *)
(* in lib/db.py, lib/vectors.py, lib/scrape.py).  Time is counted in       *)
(* minutes.                                                                *)
(*                                                                         *)
(* Spec       one drain_queue at a time over a store that accepts writes   *)
(* SpecStore  the same over a store whose writes may raise                 *)
(* SpecRace   two drain_queue calls whose loop bodies may interleave       *)
(* SpecDedup  scrape runs deduplicated against the 30-day title window     *)
(* SpecEnqueue  posts enqueued with any urgency label, then drained        *)
(* SpecAnalyze  run_analyze over the pending articles (lib/analyze.py)     *)
(* SpecScrape   run_scrape over stored articles and their embeddings       *)
(* SpecFuzzy    ahgen's fuzzy title deduplication (ahgen/ahgen.py)         *)
(* SpecLive     drain_queue called again and again, under fairness         *)
(***************************************************************************)
EXTENDS Integers, Sequences, FiniteSets, TLC

\* ---- bounds of the model ----
MaxItems == 2          \* rows ever inserted into publish_queue
MaxClock == 5          \* last minute the clock reaches by single steps
TickMinutes == 5       \* minutes one clock step advances
MaxRetries == 3        \* largest max_retries column value of a row
MaxLimit == 2          \* largest `limit` argument of drain_queue
MaxAborts == 1         \* drain_queue calls ended by a queue-store exception
MaxRaceItems == 1      \* rows in publish_queue while drains may overlap
MaxLen == 1            \* characters of a candidate's title, the samples apart
MaxBatch == 2          \* candidates in one deduplicate call
MaxRows == 3           \* rows ever inserted into dedup_titles
MaxDays == 40          \* days the dedup clock runs
MaxArticles == 2       \* rows ever inserted into articles
MaxParsed == 2         \* items in the list Stage 1 parses from one response
MaxDrafts == 1         \* drafts Stage 2 returns
MaxQueued == 3         \* rows in publish_queue while drains repeat

\* ---- optional (nullable) column values ----
None == {}
Some(x) == {x}
Get(o) == CHOOSE x \in o : TRUE

Min(a, b) == IF a <= b THEN a ELSE b

\* ---- timestamps ----
\* A datetime is <<minute, n>>: the minute the clock showed and the number of
\* rows and log entries written before it, so that two readings of the clock
\* in the same minute keep the order in which they were taken.
Minute(t) == t[1]
Earlier(a, b) == a[1] < b[1] \/ (a[1] = b[1] /\ a[2] <= b[2])
AddMinutes(t, m) == <<t[1] + m, t[2]>>

RECURSIVE LogEntries(_, _)
LogEntries(q, n) == IF n = 0 THEN 0 ELSE Len(q[n].publish_log) + LogEntries(q, n - 1)

\* datetime.now(timezone.utc) when the clock shows minute m
Now(q, m) == <<m, Len(q) + LogEntries(q, Len(q))>>

\* ---- inputs ----
Platforms == {"hashnode", "mastodon"}
Urgencies == {"high", "low"}
Bodies == {"short text"}
EnvVars == {"HASHNODE_API_KEY", "HASHNODE_PUBLICATION_ID"}
Drains == {"d1"}

VARIABLES
    queue,      \* the publish_queue table: row i has id i
    clock,      \* the minute the wall clock shows
    env,        \* names of the environment variables that are set (os.environ)
    pc,         \* per drain_queue invocation: "idle" or "loop"
    batch,      \* per drain: `items`, the list get_publishable returned (ids)
    idx,        \* per drain: position of the for loop in `items`
    counts,     \* per drain: the counters published / failed / skipped
    calls,      \* history: per item, the outcomes of publisher calls made for it
    cycles,     \* history: per item, number of drain cycles that dispatched it
    default_max_retries,  \* the column default of publish_queue.max_retries
    pending,    \* per drain: the row a mark_* call has read and not yet updated
    overlap_allowed,  \* whether a drain_queue may start while another runs
    dedup_titles,  \* the dedup_titles table, in insertion order
    vo_client,  \* vectors._vo_client: "unset" (None), "client" or "unavailable" (False)
    articles,   \* deduplicate: its argument, the candidates of the batch
    pos,        \* deduplicate: position of the for loop in `articles`
    unique,     \* deduplicate: the candidates accepted so far
    sem,        \* history: how the last find_semantic_duplicates call went
    articles_table,  \* the articles table: row i has id i
    an_pc,      \* run_analyze: "idle", "writeback", "queue" or "finish"
    all_ids,    \* run_analyze: ids of the pending articles it fetched
    enriched,   \* run_analyze: the list _stage1 returned
    enriched_ids,  \* run_analyze: ids written back so far
    e_pos,      \* run_analyze: position of the write-back loop in `enriched`
    drafts,     \* run_analyze: the drafts and lead text of Stage 2
    recent_titles,  \* ahgen: state["recent_titles"]
    accepted,   \* history: every normalized title deduplicate_articles accepted
    given,      \* history: the last call's articles and the window it found
    returned    \* history: what the last deduplicate_articles call returned

\* the variables of overlapping drains
race_vars == <<pending, overlap_allowed>>

\* the variables of the dedup pipeline
dedup_vars == <<dedup_titles, vo_client, articles, pos, unique, sem>>

\* the variables of run_analyze and the articles table
analyze_vars == <<articles_table, an_pc, all_ids, enriched, enriched_ids,
                  e_pos, drafts>>

\* the variables of the fuzzy deduplication of ahgen
fuzzy_vars == <<recent_titles, accepted, given, returned>>

vars == <<queue, clock, env, pc, batch, idx, counts, calls, cycles,
          default_max_retries, race_vars, dedup_vars, analyze_vars,
          fuzzy_vars>>

Ids == 1..Len(queue)

\* ---- lib/db.py ----

\* priority_map with the numbers of high and low exchanged
priority_map_inverted(urgency) ==
    CASE urgency = "high" -> 3
      [] urgency = "medium" -> 2
      [] urgency = "low" -> 1
      [] OTHER -> 2

priority_map(urgency) ==
    CASE urgency = "high" -> 1
      [] urgency = "medium" -> 2
      [] urgency = "low" -> 3
      [] OTHER -> 2

\* Columns enqueue_post does not set get the table's defaults.
ColumnDefaults(max_retries, now) ==
    [status |-> "queued", retry_count |-> 0, max_retries |-> max_retries,
     next_retry_at |-> None, publish_log |-> <<>>, published_at |-> None,
     platform_id |-> None, error |-> None, created_at |-> now]

InsertedRow(platform, urgency, fallback_body) ==
    [platform |-> platform, urgency |-> urgency,
     priority |-> priority_map(urgency), fallback_body |-> fallback_body]

\* record merge: the inserted columns plus the defaults
NewRow(platform, urgency, fallback_body, max_retries, now) ==
    LET a == InsertedRow(platform, urgency, fallback_body)
        b == ColumnDefaults(max_retries, now)
    IN  [f \in (DOMAIN a) \cup (DOMAIN b) |->
            IF f \in DOMAIN a THEN a[f] ELSE b[f]]

\* all orderings of the set S
Perms(S) ==
    {s \in [1..Cardinality(S) -> S] :
        \A i, j \in 1..Cardinality(S) : i # j => s[i] # s[j]}

\* .order(k1).order(k2): every listing of S the database may return, k1 and
\* k2 giving each row's keys; rows that agree on both keys come in any order
OrderBy(S, k1, k2) ==
    {s \in Perms(S) :
        \A i \in 1..(Len(s) - 1) :
            \/ k1[s[i]] < k1[s[i + 1]]
            \/ k1[s[i]] = k1[s[i + 1]] /\ Earlier(k2[s[i]], k2[s[i + 1]])}

\* .limit(n)
Limit(s, n) == SubSeq(s, 1, Min(n, Len(s)))

\* `if platform:` adds the .eq("platform", platform) filter
PlatformFilter(q, i, platform) ==
    platform = None \/ q[i].platform = Get(platform)

\* QueuedQuery without the status filter's exclusion of published rows
QueuedQuery_published_too(q, platform, limit) ==
    LET S == {i \in 1..Len(q) :
                /\ q[i].status \in {"queued", "published"}
                /\ PlatformFilter(q, i, platform)}
        prio == [i \in S |-> q[i].priority]
        created == [i \in S |-> q[i].created_at]
    IN  {Limit(s, limit) : s \in OrderBy(S, prio, created)}

\* QueuedQuery ordered by created_at alone
QueuedQuery_by_age(q, platform, limit) ==
    LET S == {i \in 1..Len(q) :
                q[i].status = "queued" /\ PlatformFilter(q, i, platform)}
        same == [i \in S |-> 0]
        created == [i \in S |-> q[i].created_at]
    IN  {Limit(s, limit) : s \in OrderBy(S, same, created)}

QueuedQuery(q, platform, limit) ==
    LET S == {i \in 1..Len(q) :
                q[i].status = "queued" /\ PlatformFilter(q, i, platform)}
        prio == [i \in S |-> q[i].priority]
        created == [i \in S |-> q[i].created_at]
    IN  {Limit(s, limit) : s \in OrderBy(S, prio, created)}

\* RetryQuery without .lte("next_retry_at", now)
RetryQuery_any_time(q, now, platform, limit) ==
    LET S == {i \in 1..Len(q) :
                q[i].status = "retry_queued" /\ PlatformFilter(q, i, platform)}
        prio == [i \in S |-> q[i].priority]
        next == [i \in S |-> Get(q[i].next_retry_at)]
    IN  {Limit(s, limit) : s \in OrderBy(S, prio, next)}

RetryQuery(q, now, platform, limit) ==
    LET S == {i \in 1..Len(q) :
                /\ q[i].status = "retry_queued"
                /\ \E t \in q[i].next_retry_at : Earlier(t, now)
                /\ PlatformFilter(q, i, platform)}
        prio == [i \in S |-> q[i].priority]
        next == [i \in S |-> Get(q[i].next_retry_at)]
    IN  {Limit(s, limit) : s \in OrderBy(S, prio, next)}

\* get_publishable returning queued + retries
get_publishable_queued_first(q, now, platform, limit) ==
    {s \o r : r \in RetryQuery(q, now, platform, limit),
              s \in QueuedQuery(q, platform, limit)}

\* the lists get_publishable may return (as row ids): retries + queued
get_publishable(q, now, platform, limit) ==
    {r \o s : r \in RetryQuery(q, now, platform, limit),
              s \in QueuedQuery(q, platform, limit)}

\* mark_published that writes the row without the appended log
mark_published_no_log(q, id, platform_id, now) ==
    [q EXCEPT ![id] =
        [@ EXCEPT !.status = "published",
                  !.published_at = Some(now),
                  !.platform_id = Some(platform_id),
                  !.error = None]]

\* mark_published that leaves the error column alone
mark_published_keeps_error(q, id, platform_id, now) ==
    LET log == Append(q[id].publish_log,
                      [at |-> now, status |-> "published",
                       detail |-> <<platform_id>>])
    IN  [q EXCEPT ![id] =
            [@ EXCEPT !.status = "published",
                      !.published_at = Some(now),
                      !.platform_id = Some(platform_id),
                      !.publish_log = log]]

\* mark_published leaving published_at unset
mark_published_no_timestamp(q, id, platform_id, now) ==
    LET log == Append(q[id].publish_log,
                      [at |-> now, status |-> "published",
                       detail |-> <<platform_id>>])
    IN  [q EXCEPT ![id] =
            [@ EXCEPT !.status = "published",
                      !.platform_id = Some(platform_id),
                      !.publish_log = log,
                      !.error = None]]

mark_published(q, id, platform_id, now) ==
    LET log == Append(q[id].publish_log,
                      [at |-> now, status |-> "published",
                       detail |-> <<platform_id>>])
    IN  [q EXCEPT ![id] =
            [@ EXCEPT !.status = "published",
                      !.published_at = Some(now),
                      !.platform_id = Some(platform_id),
                      !.publish_log = log,
                      !.error = None]]

BaseDelay == 5
Multiplier == 4

RECURSIVE Pow(_, _)
Pow(b, k) == IF k = 0 THEN 1 ELSE b * Pow(b, k - 1)

\* backoff_minutes growing by the base delay at each failure
backoff_minutes_linear(retry_count) == BaseDelay * (retry_count + 1)

backoff_minutes(retry_count) == BaseDelay * Pow(Multiplier, retry_count)

Exhausted(max_retries, error) ==
    <<"Exhausted", ToString(max_retries), "retries. Last:">> \o error

\* mark_publish_failed comparing with <= instead of <
mark_publish_failed_le(q, id, error, now) ==
    LET row == q[id]
        log == Append(row.publish_log,
                      [at |-> now, status |-> "failed", detail |-> error])
        new_count == row.retry_count + 1
    IN  IF new_count <= row.max_retries
        THEN [q EXCEPT ![id] =
                [@ EXCEPT !.status = "retry_queued",
                          !.retry_count = new_count,
                          !.next_retry_at =
                              Some(AddMinutes(now, backoff_minutes(row.retry_count))),
                          !.publish_log = log,
                          !.error = Some(error)]]
        ELSE [q EXCEPT ![id] =
                [@ EXCEPT !.status = "failed",
                          !.retry_count = new_count,
                          !.publish_log = log,
                          !.error = Some(Exhausted(row.max_retries, error))]]

\* mark_publish_failed counting the failure twice
mark_publish_failed_twice(q, id, error, now) ==
    LET row == q[id]
        log == Append(row.publish_log,
                      [at |-> now, status |-> "failed", detail |-> error])
        new_count == row.retry_count + 2
    IN  IF new_count < row.max_retries
        THEN [q EXCEPT ![id] =
                [@ EXCEPT !.status = "retry_queued",
                          !.retry_count = new_count,
                          !.next_retry_at =
                              Some(AddMinutes(now, backoff_minutes(row.retry_count))),
                          !.publish_log = log,
                          !.error = Some(error)]]
        ELSE [q EXCEPT ![id] =
                [@ EXCEPT !.status = "failed",
                          !.retry_count = new_count,
                          !.publish_log = log,
                          !.error = Some(Exhausted(row.max_retries, error))]]

\* mark_publish_failed storing the new entry in place of the log
mark_publish_failed_overwrites(q, id, error, now) ==
    LET row == q[id]
        log == <<[at |-> now, status |-> "failed", detail |-> error]>>
        new_count == row.retry_count + 1
    IN  IF new_count < row.max_retries
        THEN [q EXCEPT ![id] =
                [@ EXCEPT !.status = "retry_queued",
                          !.retry_count = new_count,
                          !.next_retry_at =
                              Some(AddMinutes(now, backoff_minutes(row.retry_count))),
                          !.publish_log = log,
                          !.error = Some(error)]]
        ELSE [q EXCEPT ![id] =
                [@ EXCEPT !.status = "failed",
                          !.retry_count = new_count,
                          !.publish_log = log,
                          !.error = Some(Exhausted(row.max_retries, error))]]

mark_publish_failed(q, id, error, now) ==
    LET row == q[id]
        log == Append(row.publish_log,
                      [at |-> now, status |-> "failed", detail |-> error])
        new_count == row.retry_count + 1
    IN  IF new_count < row.max_retries
        THEN [q EXCEPT ![id] =
                [@ EXCEPT !.status = "retry_queued",
                          !.retry_count = new_count,
                          !.next_retry_at =
                              Some(AddMinutes(now, backoff_minutes(row.retry_count))),
                          !.publish_log = log,
                          !.error = Some(error)]]
        ELSE [q EXCEPT ![id] =
                [@ EXCEPT !.status = "failed",
                          !.retry_count = new_count,
                          !.publish_log = log,
                          !.error = Some(Exhausted(row.max_retries, error))]]

\* ---- lib/publish.py ----

PUBLISHERS == {"linkedin", "devto", "hashnode", "blogger", "medium"}

env_keys(plat) ==
    CASE plat = "linkedin" -> "LINKEDIN_ACCESS_TOKEN"
      [] plat = "devto" -> "DEVTO_API_KEY"
      [] plat = "hashnode" -> "HASHNODE_API_KEY"
      [] plat = "blogger" -> "BLOGGER_EMAIL"
      [] plat = "medium" -> "MEDIUM_INTEGRATION_TOKEN"
      [] OTHER -> ""

\* the environment variables each publisher refuses to run without, in the
\* order it tests them
RequiredEnv(plat) ==
    CASE plat = "linkedin" -> <<"LINKEDIN_ACCESS_TOKEN">>
      [] plat = "devto" -> <<"DEVTO_API_KEY">>
      [] plat = "hashnode" -> <<"HASHNODE_API_KEY", "HASHNODE_PUBLICATION_ID">>
      [] plat = "blogger" -> <<"BLOGGER_EMAIL">>
      [] plat = "medium" -> <<"MEDIUM_INTEGRATION_TOKEN">>
      [] OTHER -> <<>>

Ok(platform_id) == [ok |-> TRUE, val |-> platform_id]
Raise(error) == [ok |-> FALSE, val |-> error]

\* the outcomes one publisher call can have in environment e: a
\* RuntimeError for the first missing variable, else the platform's
\* identifier or the error of the HTTP exchange
publisher(plat, e) ==
    LET req == RequiredEnv(plat)
        missing == {k \in 1..Len(req) : req[k] \notin e}
    IN  IF missing # {}
        THEN {Raise(<<req[CHOOSE k \in missing : \A m \in missing : k <= m],
                      "not set">>)}
        ELSE {Ok("post-id"), Raise(<<"HTTPError">>)}

Combined(e, fallback_err) ==
    <<"Primary:">> \o e \o <<"| Fallback:">> \o fallback_err

Zero == [published |-> 0, failed |-> 0, skipped |-> 0]

\* nothing recorded yet, no deduplicate call running, no embedding client
DedupIdle ==
    /\ dedup_titles = <<>>
    /\ vo_client = "unset"
    /\ articles = <<>>
    /\ pos = 1
    /\ unique = <<>>
    /\ sem = None

\* no article stored, no run_analyze running
AnalyzeIdle ==
    /\ articles_table = <<>>
    /\ an_pc = "idle"
    /\ all_ids = {}
    /\ enriched = <<>>
    /\ enriched_ids = {}
    /\ e_pos = 1
    /\ drafts = None

\* ahgen has no state file yet and has not run
FuzzyIdle ==
    /\ recent_titles = <<>>
    /\ accepted = <<>>
    /\ given = None
    /\ returned = None

Init ==
    /\ queue = <<>>
    /\ clock = 0
    /\ env \in SUBSET EnvVars
    /\ pc = [d \in Drains |-> "idle"]
    /\ batch = [d \in Drains |-> <<>>]
    /\ idx = [d \in Drains |-> 1]
    /\ counts = [d \in Drains |-> Zero]
    /\ calls = <<>>
    /\ cycles = <<>>
    /\ default_max_retries \in 1..MaxRetries
    /\ pending = [d \in Drains |-> None]
    /\ overlap_allowed = FALSE
    /\ DedupIdle
    /\ AnalyzeIdle
    /\ FuzzyIdle

\* time passes: one step of the clock
Tick ==
    /\ clock + TickMinutes <= MaxClock
    /\ clock' = clock + TickMinutes
    /\ UNCHANGED <<queue, env, pc, batch, idx, counts, calls, cycles,
                   default_max_retries>>
    /\ UNCHANGED <<race_vars, dedup_vars, analyze_vars,
                   fuzzy_vars>>

\* the retry times still ahead of the clock
Due ==
    {t \in UNION {queue[i].next_retry_at : i \in Ids} :
        Minute(t) > clock /\ \E i \in Ids : /\ queue[i].status = "retry_queued"
                                           /\ queue[i].next_retry_at = Some(t)}

\* time passes until the next scheduled retry falls due
WaitForRetry ==
    /\ Due # {}
    /\ \E t \in Due : (\A u \in Due : Minute(t) <= Minute(u)) /\ clock' = Minute(t)
    /\ UNCHANGED <<queue, env, pc, batch, idx, counts, calls, cycles,
                   default_max_retries>>
    /\ UNCHANGED <<race_vars, dedup_vars, analyze_vars,
                   fuzzy_vars>>

enqueue_post(platform, urgency, fallback_body) ==
    /\ Len(queue) < MaxItems
    /\ queue' = Append(queue,
                       NewRow(platform, urgency, fallback_body,
                              default_max_retries, Now(queue, clock)))
    /\ calls' = Append(calls, <<>>)
    /\ cycles' = Append(cycles, 0)
    /\ UNCHANGED <<clock, env, pc, batch, idx, counts, default_max_retries>>
    /\ UNCHANGED <<race_vars, dedup_vars, analyze_vars,
                   fuzzy_vars>>

Enqueue ==
    \E platform \in Platforms, urgency \in Urgencies,
       fallback_body \in {None} \cup {Some(b) : b \in Bodies} :
        enqueue_post(platform, urgency, fallback_body)

\* drain_queue, up to the for loop: fetch the batch, return at once if empty
drain_queue_start(d, platform, limit) ==
    /\ pc[d] = "idle"
    /\ \E items \in get_publishable(queue, Now(queue, clock), platform, limit) :
        /\ batch' = [batch EXCEPT ![d] = items]
        /\ pc' = [pc EXCEPT ![d] = IF items = <<>> THEN "idle" ELSE "loop"]
    /\ idx' = [idx EXCEPT ![d] = 1]
    /\ counts' = [counts EXCEPT ![d] = Zero]
    /\ UNCHANGED <<queue, clock, env, calls, cycles, default_max_retries>>
    /\ UNCHANGED <<race_vars, dedup_vars, analyze_vars,
                   fuzzy_vars>>

Count(d, field) == [counts EXCEPT ![d][field] = @ + 1]

\* one iteration of the for loop of drain_queue
drain_queue_item(d) ==
    /\ pc[d] = "loop"
    /\ idx[d] <= Len(batch[d])
    /\ LET id == batch[d][idx[d]]
           item == queue[id]
           plat == item.platform
       IN  IF plat \notin PUBLISHERS \/ env_keys(plat) \notin env
           THEN /\ counts' = Count(d, "skipped")
                /\ UNCHANGED <<queue, calls, cycles>>
           ELSE /\ cycles' = [cycles EXCEPT ![id] = @ + 1]
                /\ \E r \in publisher(plat, env) :
                    IF r.ok
                    THEN /\ queue' = mark_published(queue, id, r.val, Now(queue, clock))
                         /\ counts' = Count(d, "published")
                         /\ calls' = [calls EXCEPT ![id] = Append(@, TRUE)]
                    ELSE IF item.fallback_body # None
                    THEN \E f \in publisher(plat, env) :
                          IF f.ok
                          THEN /\ queue' = mark_published(queue, id, f.val, Now(queue, clock))
                               /\ counts' = Count(d, "published")
                               /\ calls' = [calls EXCEPT ![id] = @ \o <<FALSE, TRUE>>]
                          ELSE /\ queue' = mark_publish_failed(queue, id,
                                              Combined(r.val, f.val),
                                              Now(queue, clock))
                               /\ counts' = Count(d, "failed")
                               /\ calls' = [calls EXCEPT ![id] = @ \o <<FALSE, FALSE>>]
                    ELSE /\ queue' = mark_publish_failed(queue, id, r.val,
                                                     Now(queue, clock))
                         /\ counts' = Count(d, "failed")
                         /\ calls' = [calls EXCEPT ![id] = Append(@, FALSE)]
    /\ idx' = [idx EXCEPT ![d] = @ + 1]
    /\ UNCHANGED <<clock, env, pc, batch, default_max_retries>>
    /\ UNCHANGED <<race_vars, dedup_vars, analyze_vars,
                   fuzzy_vars>>

\* the loop is over: drain_queue returns its counters
drain_queue_return(d) ==
    /\ pc[d] = "loop"
    /\ idx[d] > Len(batch[d])
    /\ pc' = [pc EXCEPT ![d] = "idle"]
    /\ batch' = [batch EXCEPT ![d] = <<>>]
    /\ idx' = [idx EXCEPT ![d] = 1]
    /\ counts' = [counts EXCEPT ![d] = Zero]
    /\ UNCHANGED <<queue, clock, env, calls, cycles, default_max_retries>>
    /\ UNCHANGED <<race_vars, dedup_vars, analyze_vars,
                   fuzzy_vars>>

DrainStart ==
    \E d \in Drains, platform \in {None} \cup {Some(p) : p \in Platforms},
       limit \in 1..MaxLimit :
        drain_queue_start(d, platform, limit)

DrainItem == \E d \in Drains : drain_queue_item(d)

DrainReturn == \E d \in Drains : drain_queue_return(d)

Next == Tick \/ WaitForRetry \/ Enqueue \/ DrainStart \/ DrainItem \/ DrainReturn

Spec == Init /\ [][Next]_vars

\* ---- the drain loop when the queue store may refuse a write ----

\* what a Supabase call raises when the store cannot be reached
StoreError == <<"APIError">>

\* the ways one call of mark_publish_failed can end after cs publisher
\* calls: the row is updated and the item counted as failed, or the store
\* raises, the row stays as it was and the exception leaves drain_queue
FailOutcomes(q, id, error, now, cs) ==
    {[queue |-> mark_publish_failed(q, id, error, now), calls |-> cs,
      end |-> "failed"],
     [queue |-> q, calls |-> cs, end |-> "raised"]}

\* mark_published went through
PublishedOutcome(q, id, platform_id, now, cs) ==
    [queue |-> mark_published(q, id, platform_id, now), calls |-> cs,
     end |-> "published"]

\* the except branch of the loop body, entered with exception err after the
\* publisher calls cs: the fallback attempt if there is a fallback_body
\* (mark_published raising inside it is caught as fallback_err), else
\* mark_publish_failed
Handler(q, id, err, now, e, cs) ==
    IF q[id].fallback_body # None
    THEN UNION {IF f.ok
                THEN {PublishedOutcome(q, id, f.val, now, Append(cs, TRUE))}
                     \cup FailOutcomes(q, id, Combined(err, StoreError), now,
                                       Append(cs, TRUE))
                ELSE FailOutcomes(q, id, Combined(err, f.val), now,
                                  Append(cs, FALSE)) :
                f \in publisher(q[id].platform, e)}
    ELSE FailOutcomes(q, id, err, now, cs)

\* every way the try/except of the loop body can end for item id, each
\* queue-store write either going through or raising
Dispatch(q, id, now, e) ==
    UNION {IF r.ok
           THEN {PublishedOutcome(q, id, r.val, now, <<TRUE>>)}
                \cup Handler(q, id, StoreError, now, e, <<TRUE>>)
           ELSE Handler(q, id, r.val, now, e, <<FALSE>>) :
           r \in publisher(q[id].platform, e)}

\* history: the dispatches so far that an exception of the store cut short
\* (they are the ones that left no entry in publish_log)
RECURSIVE Dispatched(_)
Dispatched(n) == IF n = 0 THEN 0 ELSE cycles[n] + Dispatched(n - 1)
Aborts == Dispatched(Len(queue)) - LogEntries(queue, Len(queue))

\* one iteration of the for loop of drain_queue over an unreliable store
drain_queue_item_unreliable(d) ==
    /\ pc[d] = "loop"
    /\ idx[d] <= Len(batch[d])
    /\ LET id == batch[d][idx[d]]
           plat == queue[id].platform
       IN  IF plat \notin PUBLISHERS \/ env_keys(plat) \notin env
           THEN /\ counts' = Count(d, "skipped")
                /\ idx' = [idx EXCEPT ![d] = @ + 1]
                /\ UNCHANGED <<queue, calls, cycles, pc>>
           ELSE \E o \in Dispatch(queue, id, Now(queue, clock), env) :
                /\ o.end = "raised" => Aborts < MaxAborts
                /\ cycles' = [cycles EXCEPT ![id] = @ + 1]
                /\ queue' = o.queue
                /\ calls' = [calls EXCEPT ![id] = @ \o o.calls]
                /\ IF o.end = "raised"
                   THEN /\ pc' = [pc EXCEPT ![d] = "raised"]
                        /\ UNCHANGED <<idx, counts>>
                   ELSE /\ counts' = Count(d, o.end)
                        /\ idx' = [idx EXCEPT ![d] = @ + 1]
                        /\ UNCHANGED pc
    /\ UNCHANGED <<clock, env, batch, default_max_retries>>
    /\ UNCHANGED <<race_vars, dedup_vars, analyze_vars,
                   fuzzy_vars>>

\* the exception leaves drain_queue: no caller catches it, the command ends
\* without a result
drain_queue_raised(d) ==
    /\ pc[d] = "raised"
    /\ pc' = [pc EXCEPT ![d] = "idle"]
    /\ batch' = [batch EXCEPT ![d] = <<>>]
    /\ idx' = [idx EXCEPT ![d] = 1]
    /\ counts' = [counts EXCEPT ![d] = Zero]
    /\ UNCHANGED <<queue, clock, env, calls, cycles, default_max_retries>>
    /\ UNCHANGED <<race_vars, dedup_vars, analyze_vars,
                   fuzzy_vars>>

DrainItemUnreliable == \E d \in Drains : drain_queue_item_unreliable(d)

DrainRaised == \E d \in Drains : drain_queue_raised(d)

\* posts for one configured platform at one urgency, with or without a
\* fallback
EnqueueConfigured ==
    \E fallback_body \in {None} \cup {Some(b) : b \in Bodies} :
        enqueue_post("hashnode", "high", fallback_body)

\* drain_queue() as the publish command calls it for all platforms
DrainAll == \E d \in Drains : drain_queue_start(d, None, MaxLimit)

NextStore ==
    \/ WaitForRetry \/ EnqueueConfigured \/ DrainAll
    \/ DrainItemUnreliable \/ DrainRaised \/ DrainReturn

\* every platform credential is set; items get one retry
InitStore == Init /\ env = EnvVars /\ default_max_retries = 2

SpecStore == InitStore /\ [][NextStore]_vars

\* ---- drain_queue calls that may overlap ----

\* the drain_queue invocations of two schedulers
Racers == {"d1", "d2"}

\* what the try/except of the loop body decides for an item when the store
\* accepts every write: which mark_* function it calls, with which argument,
\* after which publisher calls
Decide(item, e) ==
    UNION {IF r.ok
           THEN {[op |-> "published", arg |-> r.val, calls |-> <<TRUE>>]}
           ELSE IF item.fallback_body # None
           THEN {IF f.ok
                 THEN [op |-> "published", arg |-> f.val,
                       calls |-> <<FALSE, TRUE>>]
                 ELSE [op |-> "failed", arg |-> Combined(r.val, f.val),
                       calls |-> <<FALSE, FALSE>>] :
                 f \in publisher(item.platform, e)}
           ELSE {[op |-> "failed", arg |-> r.val, calls |-> <<FALSE>>]} :
           r \in publisher(item.platform, e)}

\* the columns mark_published and mark_publish_failed select before they
\* update the row
Selected(row) ==
    [publish_log |-> row.publish_log, retry_count |-> row.retry_count,
     max_retries |-> row.max_retries]

\* the loop body up to the row read of mark_published / mark_publish_failed
drain_queue_item_read(d) ==
    /\ pc[d] = "loop"
    /\ idx[d] <= Len(batch[d])
    /\ LET id == batch[d][idx[d]]
           item == queue[id]
           plat == item.platform
       IN  IF plat \notin PUBLISHERS \/ env_keys(plat) \notin env
           THEN /\ counts' = Count(d, "skipped")
                /\ idx' = [idx EXCEPT ![d] = @ + 1]
                /\ UNCHANGED <<pc, pending, calls, cycles>>
           ELSE \E o \in Decide(item, env) :
                /\ cycles' = [cycles EXCEPT ![id] = @ + 1]
                /\ calls' = [calls EXCEPT ![id] = @ \o o.calls]
                /\ pending' = [pending EXCEPT ![d] =
                        Some([id |-> id, op |-> o.op, arg |-> o.arg,
                              at |-> Now(queue, clock),
                              read |-> Selected(item)])]
                /\ pc' = [pc EXCEPT ![d] = "write"]
                /\ UNCHANGED <<idx, counts>>
    /\ UNCHANGED <<queue, clock, env, batch, default_max_retries,
                   overlap_allowed, dedup_vars, analyze_vars,
                   fuzzy_vars>>

\* the row update of mark_published / mark_publish_failed, computed from
\* the columns read before and applied by id, and the rest of the loop body
drain_queue_item_write(d) ==
    /\ pc[d] = "write"
    /\ LET w == Get(pending[d])
       IN  /\ queue' =
                IF w.op = "published"
                THEN mark_published(
                        [queue EXCEPT ![w.id].publish_log = w.read.publish_log],
                        w.id, w.arg, w.at)
                ELSE mark_publish_failed(
                        [queue EXCEPT ![w.id].publish_log = w.read.publish_log,
                                      ![w.id].retry_count = w.read.retry_count,
                                      ![w.id].max_retries = w.read.max_retries],
                        w.id, w.arg, w.at)
           /\ counts' = Count(d, w.op)
    /\ pending' = [pending EXCEPT ![d] = None]
    /\ pc' = [pc EXCEPT ![d] = "loop"]
    /\ idx' = [idx EXCEPT ![d] = @ + 1]
    /\ UNCHANGED <<clock, env, batch, calls, cycles, default_max_retries,
                   overlap_allowed, dedup_vars, analyze_vars,
                   fuzzy_vars>>

\* a scheduler that starts drain_queue() whatever the other one is doing
RaceStart_unguarded ==
    \E d \in Racers : drain_queue_start(d, None, MaxLimit)

\* a scheduler calls drain_queue(); where overlap is not allowed it waits
\* for the other call to end
RaceStart ==
    \E d \in Racers :
        /\ overlap_allowed \/ \A o \in Racers \ {d} : pc[o] = "idle"
        /\ drain_queue_start(d, None, MaxLimit)

\* a post for a configured platform, with or without a fallback
RaceEnqueue == Len(queue) < MaxRaceItems /\ EnqueueConfigured

RaceRead == \E d \in Racers : drain_queue_item_read(d)

RaceWrite == \E d \in Racers : drain_queue_item_write(d)

RaceReturn == \E d \in Racers : drain_queue_return(d)

InitRace ==
    /\ queue = <<>>
    /\ clock = 0
    /\ env = EnvVars
    /\ pc = [d \in Racers |-> "idle"]
    /\ batch = [d \in Racers |-> <<>>]
    /\ idx = [d \in Racers |-> 1]
    /\ counts = [d \in Racers |-> Zero]
    /\ calls = <<>>
    /\ cycles = <<>>
    /\ default_max_retries \in 1..MaxRetries
    /\ pending = [d \in Racers |-> None]
    /\ overlap_allowed \in BOOLEAN
    /\ DedupIdle
    /\ AnalyzeIdle
    /\ FuzzyIdle

NextRace ==
    \/ WaitForRetry \/ RaceEnqueue
    \/ RaceStart \/ RaceRead \/ RaceWrite \/ RaceReturn

SpecRace == InitRace /\ [][NextRace]_vars

\* ---- deduplication: lib/db.py, lib/vectors.py, lib/scrape.py ----

DayMinutes == 1440
WindowDays == 30

\* the days that pass between two scrape runs
DaySteps == {10}

\* characters: a letter in lower case, in upper case and in its fullwidth
\* form (U+FF21), a punctuation mark, a blank
Alphabet == {"a", "A", "FULLWIDTH_A", "!", " "}

\* a title as the tests write it: "  A,  a!" style, blanks and punctuation
\* around and between two words
Spaced == <<" ", "A", "!", " ", " ", "a", "!">>

\* the same word written twice over: "Aa!" and "aA"
Shouted == <<"A", "a", "!">>
Plain == <<"a", "A">>

Titles ==
    UNION {[1..k -> Alphabet] : k \in 0..MaxLen} \cup {Spaced, Shouted, Plain}

\* unicodedata.normalize("NFKC", c)
Nfkc(c) == IF c = "FULLWIDTH_A" THEN "A" ELSE c

\* str.lower
Lower(c) == IF c = "A" THEN "a" ELSE c

\* the classes \w and \s of the regular expressions
IsWord(c) == c \in {"a", "A", "FULLWIDTH_A", "b"}
IsSpace(c) == c = " "

\* re.sub(r'[^\w\s]', '', title) keeps these
Kept(c) == IsWord(c) \/ IsSpace(c)

\* re.sub(r'\s+', ' ', title)
RECURSIVE Collapse(_)
Collapse(s) ==
    IF Len(s) <= 1 THEN s
    ELSE IF IsSpace(s[1]) /\ IsSpace(s[2]) THEN Collapse(Tail(s))
    ELSE <<s[1]>> \o Collapse(Tail(s))

\* str.strip
RECURSIVE Strip(_)
Strip(s) ==
    IF s = <<>> THEN s
    ELSE IF IsSpace(s[1]) THEN Strip(Tail(s))
    ELSE IF IsSpace(s[Len(s)]) THEN Strip(SubSeq(s, 1, Len(s) - 1))
    ELSE s

normalize_title(title) ==
    LET folded == [k \in 1..Len(title) |-> Lower(Nfkc(title[k]))]
    IN  Strip(Collapse(SelectSeq(folded, Kept)))

\* the column default of dedup_titles.seen_at
SeenAtDefault(now) == now

\* is_duplicate with no cutoff on seen_at
is_duplicate_any_age(rows, title, now) ==
    LET norm == normalize_title(title)
    IN  IF norm = <<>>
        THEN [result |-> TRUE, queried |-> FALSE]
        ELSE [result |-> \E k \in 1..Len(rows) : rows[k].title_norm = norm,
              queried |-> TRUE]

\* is_duplicate without the early return for an empty normalized title
is_duplicate_asks_store(rows, title, now) ==
    LET norm == normalize_title(title)
        cutoff == now - WindowDays * DayMinutes
    IN  [result |-> \E k \in 1..Len(rows) :
                        /\ rows[k].title_norm = norm
                        /\ rows[k].seen_at >= cutoff,
         queried |-> TRUE]

\* is_duplicate(title) over the rows of dedup_titles at time now: what it
\* returns, and whether it sent a query to the store
is_duplicate(rows, title, now) ==
    LET norm == normalize_title(title)
        cutoff == now - WindowDays * DayMinutes
    IN  IF norm = <<>>
        THEN [result |-> TRUE, queried |-> FALSE]
        ELSE [result |-> \E k \in 1..Len(rows) :
                            /\ rows[k].title_norm = norm
                            /\ rows[k].seen_at >= cutoff,
              queried |-> TRUE]

\* record_title storing the title as it came
record_title_raw(rows, title, source, now) ==
    IF title = <<>>
    THEN rows
    ELSE Append(rows, [title_norm |-> title, source |-> source,
                       seen_at |-> SeenAtDefault(now)])

\* record_title(title, source): the rows of dedup_titles afterwards
record_title(rows, title, source, now) ==
    LET norm == normalize_title(title)
    IN  IF norm = <<>>
        THEN rows
        ELSE Append(rows, [title_norm |-> norm, source |-> source,
                           seen_at |-> SeenAtDefault(now)])

\* cleanup_dedup(days): the rows of dedup_titles afterwards
cleanup_dedup(rows, days, now) ==
    LET cutoff == now - days * DayMinutes
        Stays(r) == ~(r.seen_at < cutoff)
    IN  SelectSeq(rows, Stays)

\* ---- lib/vectors.py ----

EmbedKeys == {"VOYAGE_API_KEY", "ANTHROPIC_API_KEY"}

\* _get_voyage_client: whether a client is returned, and _vo_client afterwards
get_voyage_client(vo, e) ==
    IF vo = "unavailable" THEN {[client |-> FALSE, vo |-> vo]}
    ELSE IF vo = "client" THEN {[client |-> TRUE, vo |-> vo]}
    ELSE IF e \cap EmbedKeys = {}
    THEN {[client |-> FALSE, vo |-> "unavailable"]}
    ELSE {[client |-> TRUE, vo |-> "client"],
          [client |-> FALSE, vo |-> "unavailable"]}

\* _make_content(english_title, body)
make_content(title, body) == title \o <<"\n", "\n">> \o body

\* `not text or not text.strip()`
Blank(text) == \A k \in 1..Len(text) : text[k] \in {" ", "\n"}

\* embed_text: the vector returned (empty when none could be made), why,
\* and _vo_client afterwards
embed_text(text, vo, e) ==
    IF Blank(text)
    THEN {[embedding |-> <<>>, mode |-> "blank", vo |-> vo]}
    ELSE UNION {IF ~c.client
                THEN {[embedding |-> <<>>, mode |-> "unconfigured", vo |-> c.vo]}
                ELSE {[embedding |-> <<1>>, mode |-> "embedded", vo |-> c.vo],
                      [embedding |-> <<>>, mode |-> "embed_failed", vo |-> c.vo]} :
                c \in get_voyage_client(vo, e)}

\* what the match_articles RPC can return above the threshold
RpcRows ==
    {<<>>,
     <<[id |-> "art-1", score |-> 90, source |-> "36kr",
        english_title |-> <<"a">>]>>}

\* find_semantic_duplicates handing on what the index held before the
\* search failed
find_semantic_duplicates_stale(title, body, vo, e) ==
    UNION {IF x.embedding = <<>>
           THEN {[matches |-> <<>>, mode |-> x.mode, vo |-> x.vo]}
           ELSE {[matches |-> m, mode |-> "searched", vo |-> x.vo] :
                    m \in RpcRows}
                \cup {[matches |-> m, mode |-> "query_failed", vo |-> x.vo] :
                    m \in RpcRows} :
           x \in embed_text(make_content(title, body), vo, e)}

\* find_semantic_duplicates: the matches returned, how the call went, and
\* _vo_client afterwards; nothing it calls can raise past it
find_semantic_duplicates(title, body, vo, e) ==
    UNION {IF x.embedding = <<>>
           THEN {[matches |-> <<>>, mode |-> x.mode, vo |-> x.vo]}
           ELSE {[matches |-> m, mode |-> "searched", vo |-> x.vo] :
                    m \in RpcRows}
                \cup {[matches |-> <<>>, mode |-> "query_failed", vo |-> x.vo]} :
           x \in embed_text(make_content(title, body), vo, e)}

\* ---- lib/scrape.py ----

\* the candidates of a scrape run
Candidates == {[title |-> t, body |-> <<>>, source |-> "36kr"] : t \in Titles}

Batches == UNION {[1..n -> Candidates] : n \in 1..MaxBatch}

\* deduplicate(articles) is called
deduplicate_start(a) ==
    /\ articles = <<>>
    /\ Len(dedup_titles) + Len(a) <= MaxRows
    /\ articles' = a
    /\ pos' = 1
    /\ unique' = <<>>
    /\ sem' = None
    /\ UNCHANGED <<dedup_titles, vo_client, clock, env>>
    /\ UNCHANGED <<queue, pc, batch, idx, counts, calls, cycles,
                   default_max_retries, race_vars, analyze_vars,
                   fuzzy_vars>>

\* one iteration of the for loop of deduplicate
deduplicate_item ==
    /\ articles # <<>>
    /\ pos <= Len(articles)
    /\ LET a == articles[pos]
       IN  IF a.title = <<>> \/ is_duplicate(dedup_titles, a.title, clock).result
           THEN /\ sem' = None
                /\ UNCHANGED <<unique, dedup_titles, vo_client>>
           ELSE \E o \in find_semantic_duplicates(a.title, a.body, vo_client, env) :
                /\ vo_client' = o.vo
                /\ sem' = Some(o.mode)
                /\ IF o.matches # <<>>
                   THEN UNCHANGED <<unique, dedup_titles>>
                   ELSE /\ unique' = Append(unique, a)
                        /\ dedup_titles' =
                             record_title(dedup_titles, a.title, a.source, clock)
    /\ pos' = pos + 1
    /\ UNCHANGED <<articles, clock, env>>
    /\ UNCHANGED <<queue, pc, batch, idx, counts, calls, cycles,
                   default_max_retries, race_vars, analyze_vars,
                   fuzzy_vars>>

\* the loop is over: deduplicate returns `unique`
deduplicate_return ==
    /\ articles # <<>>
    /\ pos > Len(articles)
    /\ articles' = <<>>
    /\ pos' = 1
    /\ unique' = <<>>
    /\ sem' = None
    /\ UNCHANGED <<dedup_titles, vo_client, clock, env>>
    /\ UNCHANGED <<queue, pc, batch, idx, counts, calls, cycles,
                   default_max_retries, race_vars, analyze_vars,
                   fuzzy_vars>>

\* run_scrape hands the scraped candidates to deduplicate
Scrape == \E a \in Batches : deduplicate_start(a)

\* days pass between two scrape runs
DaysPass ==
    /\ articles = <<>>
    /\ \E n \in DaySteps :
        /\ clock + n * DayMinutes <= MaxDays * DayMinutes
        /\ clock' = clock + n * DayMinutes
    /\ UNCHANGED <<env, dedup_vars>>
    /\ UNCHANGED <<queue, pc, batch, idx, counts, calls, cycles,
                   default_max_retries, race_vars, analyze_vars,
                   fuzzy_vars>>

\* the cleanup command purges the rows older than the window
Cleanup ==
    /\ articles = <<>>
    /\ dedup_titles' = cleanup_dedup(dedup_titles, WindowDays, clock)
    /\ dedup_titles' # dedup_titles
    /\ UNCHANGED <<vo_client, articles, pos, unique, sem, clock, env>>
    /\ UNCHANGED <<queue, pc, batch, idx, counts, calls, cycles,
                   default_max_retries, race_vars, analyze_vars,
                   fuzzy_vars>>

InitDedup ==
    /\ queue = <<>>
    /\ clock = 0
    /\ env \in SUBSET {"VOYAGE_API_KEY"}
    /\ pc = [d \in Drains |-> "idle"]
    /\ batch = [d \in Drains |-> <<>>]
    /\ idx = [d \in Drains |-> 1]
    /\ counts = [d \in Drains |-> Zero]
    /\ calls = <<>>
    /\ cycles = <<>>
    /\ default_max_retries = MaxRetries
    /\ pending = [d \in Drains |-> None]
    /\ overlap_allowed = FALSE
    /\ DedupIdle
    /\ AnalyzeIdle
    /\ FuzzyIdle

NextDedup == Scrape \/ deduplicate_item \/ deduplicate_return \/ DaysPass \/ Cleanup

SpecDedup == InitDedup /\ [][NextDedup]_vars

\* ---- posts of every urgency: lib/db.py ----

\* the urgency labels a draft can carry: the three of the priority map and
\* one that is none of them
Labels == {"high", "medium", "low", "critical"}

\* a post of any urgency for a configured platform
EnqueueLabelled ==
    \E urgency \in Labels, fallback_body \in {None} \cup {Some(b) : b \in Bodies} :
        enqueue_post("hashnode", urgency, fallback_body)

NextEnqueue ==
    WaitForRetry \/ EnqueueLabelled \/ DrainAll \/ DrainItem \/ DrainReturn

SpecEnqueue == InitStore /\ [][NextEnqueue]_vars

\* ---- the articles table and run_analyze: lib/db.py, lib/analyze.py ----

PendingLimit == 500
StageBatch == 50
RelevanceFloor == 3

\* the relevance Stage 1 gives an article it passes through unparsed
PassRelevance == 3

\* the column default of articles.scraped_at
ScrapedAtDefault(now) == now

\* insert_articles(articles, run_id): the rows of the table afterwards;
\* candidates without a title are left out
RECURSIVE insert_articles(_, _, _)
insert_articles(rows, arts, now) ==
    IF arts = <<>> THEN rows
    ELSE LET a == arts[1]
             row == [source |-> a.source, title |-> a.title,
                     title_norm |-> normalize_title(a.title),
                     status |-> "pending", relevance |-> None,
                     embedding |-> FALSE,
                     scraped_at |-> ScrapedAtDefault(now)]
         IN  insert_articles(IF a.title = <<>> THEN rows ELSE Append(rows, row),
                             Tail(arts), now)

\* get_pending_articles(limit): the lists of ids the query may return,
\* oldest scraped_at first
get_pending_articles(rows, limit) ==
    LET S == {i \in 1..Len(rows) : rows[i].status = "pending"}
    IN  {Limit(s, limit) :
            s \in {p \in Perms(S) :
                    \A k \in 1..(Len(p) - 1) :
                        rows[p[k]].scraped_at <= rows[p[k + 1]].scraped_at}}

\* update_article_enrichment(article_id, english_title, category,
\* relevance); english_title and category are written with relevance
update_article_enrichment(rows, id, relevance) ==
    [rows EXCEPT ![id] = [@ EXCEPT !.relevance = Some(relevance),
                                   !.status = "analyzed"]]

\* mark_articles_status(article_ids, status)
mark_articles_status(rows, ids, status) ==
    [i \in 1..Len(rows) |->
        IF i \in ids THEN [rows[i] EXCEPT !.status = status] ELSE rows[i]]

\* the items a Stage 1 response can hold for a batch of n articles: an
\* index (-1 when the item has none, n when it is past the batch) and a
\* relevance
StageItems(n) == [index : -1..n, relevance : {1, RelevanceFloor}]

ParsedLists(n) == UNION {[1..k -> StageItems(n)] : k \in 1..MaxParsed}

\* what _stage1 appends for one batch b (a list of article ids): the
\* articles the parsed items point at, the whole batch with relevance 3 when
\* the response is no list or the call raised, or both when an item raised
\* after others had been taken
stage1_batch(b) ==
    LET n == Len(b)
        Pass == [k \in 1..n |-> [id |-> b[k], relevance |-> PassRelevance]]
        InRange(item) == 0 <= item.index /\ item.index < n
        Pick(parsed) ==
            LET ok == SelectSeq(parsed, InRange)
            IN  [k \in 1..Len(ok) |->
                    [id |-> b[ok[k].index + 1], relevance |-> ok[k].relevance]]
    IN  {Pass} \cup {Pick(p) : p \in ParsedLists(n)}
               \cup {Pick(p) \o Pass : p \in ParsedLists(n)}

\* _stage1(articles, batch_size): the lists it may return
RECURSIVE stage1(_, _)
stage1(arts, batch_size) ==
    IF arts = <<>> THEN {<<>>}
    ELSE LET n == Min(batch_size, Len(arts))
         IN  {x \o y : x \in stage1_batch(SubSeq(arts, 1, n)),
                       y \in stage1(SubSeq(arts, n + 1, Len(arts)), batch_size)}

\* dropped_ids forgetting the articles Stage 1 left out
dropped_ids_none(all, done) == {}

\* all_ids - enriched_ids
dropped_ids(all, done) == all \ done

\* the drafts a Stage 2 response can hold: an urgency (or none), a global
\* post with text, a china post with text
Drafts ==
    [urgency : {None, Some("high"), Some("medium"), Some("low"),
                Some("critical")},
     global_post : BOOLEAN, china_post : BOOLEAN]

\* _stage2 and _extract_lead: the drafts and the lead text that follow
Stage2Results ==
    [drafts : UNION {[1..k -> Drafts] : k \in 0..MaxDrafts},
     lead_text : {None} \cup {Some(b) : b \in Bodies}]

NoBriefing == [drafts |-> <<>>, lead_text |-> None]

\* the enqueue_post calls the loop over the drafts makes, in order
RECURSIVE Posts(_, _)
Posts(ds, lead_text) ==
    IF ds = <<>> THEN <<>>
    ELSE LET d == ds[1]
             urgency == IF d.urgency = None THEN "medium" ELSE Get(d.urgency)
             post(platform) == [platform |-> platform, urgency |-> urgency,
                                fallback_body |-> lead_text]
         IN  (IF d.global_post
              THEN <<post("linkedin"), post("devto"), post("hashnode"),
                     post("blogger")>>
              ELSE <<>>)
             \o (IF d.china_post THEN <<post("linkedin")>> ELSE <<>>)
             \o Posts(Tail(ds), lead_text)

\* the publish_queue table after the enqueue_post calls ps
RECURSIVE Enqueued(_, _, _, _)
Enqueued(q, ps, max_retries, m) ==
    IF ps = <<>> THEN q
    ELSE Enqueued(Append(q, NewRow(ps[1].platform, ps[1].urgency,
                                   ps[1].fallback_body, max_retries, Now(q, m))),
                  Tail(ps), max_retries, m)

\* run_analyze up to the write-back loop: fetch the pending articles,
\* return at once if there are none, else run Stage 1
run_analyze_start ==
    /\ an_pc = "idle"
    /\ \E fetched \in get_pending_articles(articles_table, PendingLimit) :
        IF fetched = <<>>
        THEN UNCHANGED <<an_pc, all_ids, enriched>>
        ELSE /\ all_ids' = {fetched[k] : k \in 1..Len(fetched)}
             /\ enriched' \in stage1(fetched, StageBatch)
             /\ an_pc' = "writeback"
    /\ enriched_ids' = {}
    /\ e_pos' = 1
    /\ UNCHANGED <<articles_table, drafts, fuzzy_vars>>
    /\ UNCHANGED <<queue, clock, env, pc, batch, idx, counts, calls, cycles,
                   default_max_retries, race_vars, dedup_vars>>

\* one iteration of the write-back loop
run_analyze_writeback ==
    /\ an_pc = "writeback"
    /\ e_pos <= Len(enriched)
    /\ enriched_ids' = enriched_ids \cup {enriched[e_pos].id}
    /\ articles_table' = update_article_enrichment(articles_table,
                             enriched[e_pos].id, enriched[e_pos].relevance)
    /\ e_pos' = e_pos + 1
    /\ UNCHANGED <<an_pc, all_ids, enriched, drafts, fuzzy_vars>>
    /\ UNCHANGED <<queue, clock, env, pc, batch, idx, counts, calls, cycles,
                   default_max_retries, race_vars, dedup_vars>>

\* the rows after upsert_articles(enriched): each enriched article gets its
\* embedding stored or, when embedding or the update fails, does not
Upserted(rows, ids) ==
    {[i \in 1..Len(rows) |->
        IF i \in done THEN [rows[i] EXCEPT !.embedding = TRUE] ELSE rows[i]] :
        done \in SUBSET ids}

\* after the loop: the dropped articles are marked, the embeddings stored,
\* and Stage 2 runs if an enriched article has relevance >= 3
run_analyze_dropped ==
    /\ an_pc = "writeback"
    /\ e_pos > Len(enriched)
    /\ articles_table' \in
          Upserted(mark_articles_status(articles_table,
                                        dropped_ids(all_ids, enriched_ids),
                                        "enrichment_failed"),
                   enriched_ids)
    /\ IF \E k \in 1..Len(enriched) : enriched[k].relevance >= RelevanceFloor
       THEN \E r \in Stage2Results : drafts' = Some(r)
       ELSE drafts' = Some(NoBriefing)
    /\ an_pc' = "queue"
    /\ UNCHANGED <<all_ids, enriched, enriched_ids, e_pos, fuzzy_vars>>
    /\ UNCHANGED <<queue, clock, env, pc, batch, idx, counts, calls, cycles,
                   default_max_retries, race_vars, dedup_vars>>

\* the loop over the drafts: every post is enqueued
run_analyze_queue ==
    /\ an_pc = "queue"
    /\ LET r == Get(drafts)
           ps == Posts(r.drafts, r.lead_text)
       IN  /\ queue' = Enqueued(queue, ps, default_max_retries, clock)
           /\ calls' = calls \o [k \in 1..Len(ps) |-> <<>>]
           /\ cycles' = cycles \o [k \in 1..Len(ps) |-> 0]
    /\ an_pc' = "finish"
    /\ UNCHANGED <<articles_table, all_ids, enriched, enriched_ids, e_pos,
                   drafts, fuzzy_vars>>
    /\ UNCHANGED <<clock, env, pc, batch, idx, counts,
                   default_max_retries, race_vars, dedup_vars>>

\* the enriched articles are marked analyzed and run_analyze returns
run_analyze_finish ==
    /\ an_pc = "finish"
    /\ articles_table' =
          mark_articles_status(articles_table, enriched_ids, "analyzed")
    /\ an_pc' = "idle"
    /\ all_ids' = {}
    /\ enriched' = <<>>
    /\ enriched_ids' = {}
    /\ e_pos' = 1
    /\ drafts' = None
    /\ UNCHANGED fuzzy_vars
    /\ UNCHANGED <<queue, clock, env, pc, batch, idx, counts, calls, cycles,
                   default_max_retries, race_vars, dedup_vars>>

\* a scrape run stores a new article
Scraped ==
    /\ Len(articles_table) < MaxArticles
    /\ articles_table' =
          insert_articles(articles_table,
                          <<[title |-> Plain, body |-> <<>>, source |-> "36kr"]>>,
                          clock)
    /\ UNCHANGED <<an_pc, all_ids, enriched, enriched_ids, e_pos, drafts,
                   fuzzy_vars>>
    /\ UNCHANGED <<queue, clock, env, pc, batch, idx, counts, calls, cycles,
                   default_max_retries, race_vars, dedup_vars>>

NextAnalyze ==
    \/ Scraped \/ run_analyze_start \/ run_analyze_writeback
    \/ run_analyze_dropped \/ run_analyze_queue \/ run_analyze_finish

\* no article stored yet, the queue empty, rows get three retries
InitAnalyze == Init /\ env = EnvVars /\ default_max_retries = MaxRetries

SpecAnalyze == InitAnalyze /\ [][NextAnalyze]_vars

\* ---- run_scrape over the articles table: lib/scrape.py, lib/vectors.py ----

MatchCount == 5

\* the rows the match_articles function of the database can return for a
\* query embedding: up to match_count stored articles that have an
\* embedding and, when filter_days is given, were scraped within that many
\* days; which of them are similar enough depends on the embeddings
match_articles(rows, now, match_count, filter_days) ==
    LET eligible == {i \in 1..Len(rows) :
                        /\ rows[i].embedding
                        /\ \A days \in filter_days :
                              rows[i].scraped_at >= now - days * DayMinutes}
        Hit(i) == [id |-> i, score |-> 90, source |-> rows[i].source,
                   english_title |-> rows[i].title]
    IN  UNION {{[k \in 1..Len(s) |-> Hit(s[k])] : s \in Perms(T)} :
               T \in {U \in SUBSET eligible : Cardinality(U) <= match_count}}

\* find_semantic_duplicates over the stored articles: the call passes
\* query_embedding, match_threshold and match_count, and no filter_days
find_semantic_duplicates_stored(title, body, vo, e, rows, now) ==
    UNION {IF x.embedding = <<>>
           THEN {[matches |-> <<>>, mode |-> x.mode, vo |-> x.vo]}
           ELSE {[matches |-> m, mode |-> "searched", vo |-> x.vo] :
                    m \in match_articles(rows, now, MatchCount, None)}
                \cup {[matches |-> <<>>, mode |-> "query_failed", vo |-> x.vo]} :
           x \in embed_text(make_content(title, body), vo, e)}

\* one iteration of the for loop of deduplicate, the semantic check
\* searching the articles table
deduplicate_item_stored ==
    /\ articles # <<>>
    /\ pos <= Len(articles)
    /\ LET a == articles[pos]
       IN  IF a.title = <<>> \/ is_duplicate(dedup_titles, a.title, clock).result
           THEN /\ sem' = None
                /\ UNCHANGED <<unique, dedup_titles, vo_client>>
           ELSE \E o \in find_semantic_duplicates_stored(a.title, a.body, vo_client,
                                                  env, articles_table, clock) :
                /\ vo_client' = o.vo
                /\ sem' = Some(o.mode)
                /\ IF o.matches # <<>>
                   THEN UNCHANGED <<unique, dedup_titles>>
                   ELSE /\ unique' = Append(unique, a)
                        /\ dedup_titles' =
                             record_title(dedup_titles, a.title, a.source, clock)
    /\ pos' = pos + 1
    /\ UNCHANGED <<articles, clock, env>>
    /\ UNCHANGED <<queue, pc, batch, idx, counts, calls, cycles,
                   default_max_retries, race_vars, analyze_vars, fuzzy_vars>>

\* run_scrape after deduplicate has returned `unique`: insert_articles
\* stores it and upsert_articles embeds it (the scraped candidates carry no
\* article id, so no embedding is stored), or the insert raises and the
\* exception ends run_scrape
run_scrape_insert ==
    /\ articles # <<>>
    /\ pos > Len(articles)
    /\ \/ /\ articles_table' = insert_articles(articles_table, unique, clock)
          /\ IF unique = <<>>
             THEN UNCHANGED vo_client
             ELSE \E c \in get_voyage_client(vo_client, env) : vo_client' = c.vo
       \/ /\ unique # <<>>
          /\ UNCHANGED <<articles_table, vo_client>>
    /\ articles' = <<>>
    /\ pos' = 1
    /\ unique' = <<>>
    /\ sem' = None
    /\ UNCHANGED <<dedup_titles, clock, env>>
    /\ UNCHANGED <<an_pc, all_ids, enriched, enriched_ids, e_pos, drafts,
                   fuzzy_vars>>
    /\ UNCHANGED <<queue, pc, batch, idx, counts, calls, cycles,
                   default_max_retries, race_vars>>

\* an article of an earlier cycle: scraped, analyzed and embedded
StoredArticle ==
    [source |-> "36kr", title |-> Spaced, title_norm |-> normalize_title(Spaced),
     status |-> "analyzed", relevance |-> Some(PassRelevance),
     embedding |-> TRUE, scraped_at |-> ScrapedAtDefault(0)]

\* the tables are empty, or hold the article of an earlier cycle and the
\* dedup record made when it was accepted
InitScrape ==
    /\ queue = <<>>
    /\ clock = 0
    /\ env \in SUBSET {"VOYAGE_API_KEY"}
    /\ pc = [d \in Drains |-> "idle"]
    /\ batch = [d \in Drains |-> <<>>]
    /\ idx = [d \in Drains |-> 1]
    /\ counts = [d \in Drains |-> Zero]
    /\ calls = <<>>
    /\ cycles = <<>>
    /\ default_max_retries = MaxRetries
    /\ pending = [d \in Drains |-> None]
    /\ overlap_allowed = FALSE
    /\ vo_client = "unset"
    /\ articles = <<>>
    /\ pos = 1
    /\ unique = <<>>
    /\ sem = None
    /\ \E earlier \in BOOLEAN :
        /\ articles_table = IF earlier THEN <<StoredArticle>> ELSE <<>>
        /\ dedup_titles =
             IF earlier
             THEN record_title(<<>>, StoredArticle.title, StoredArticle.source, 0)
             ELSE <<>>
    /\ an_pc = "idle"
    /\ all_ids = {}
    /\ enriched = <<>>
    /\ enriched_ids = {}
    /\ e_pos = 1
    /\ drafts = None
    /\ FuzzyIdle

\* the candidates of a scrape run that covers the same stories again
Repeats ==
    {[title |-> t, body |-> <<>>, source |-> "36kr"] :
        t \in {Spaced, Shouted, Plain}}

\* run_scrape hands the scraped candidates to deduplicate
ScrapeRepeats ==
    \E a \in UNION {[1..n -> Repeats] : n \in 1..MaxBatch} : deduplicate_start(a)

NextScrape ==
    ScrapeRepeats \/ deduplicate_item_stored \/ run_scrape_insert \/ DaysPass \/ Cleanup

SpecScrape == InitScrape /\ [][NextScrape]_vars

\* ---- fuzzy deduplication: ahgen/ahgen.py ----

WindowSize == 500

\* threshold, in hundredths
Threshold == 65

\* ahgen's own _normalize_title, the same steps as the one of lib/db.py
ahgen_normalize_title(title) == normalize_title(title)

\* the blocks a and b have in common: a[i..i+k-1] = b[j..j+k-1]
CommonBlocks(a, b) ==
    {x \in (1..Len(a)) \X (1..Len(b)) \X (1..Min(Len(a), Len(b))) :
        /\ x[1] + x[3] - 1 <= Len(a)
        /\ x[2] + x[3] - 1 <= Len(b)
        /\ SubSeq(a, x[1], x[1] + x[3] - 1) = SubSeq(b, x[2], x[2] + x[3] - 1)}

\* SequenceMatcher.find_longest_match: the longest common block, of those
\* the one that starts earliest in a, of those the one earliest in b
LongestMatch(a, b) ==
    CHOOSE x \in CommonBlocks(a, b) :
        \A y \in CommonBlocks(a, b) :
            \/ x[3] > y[3]
            \/ x[3] = y[3] /\ x[1] < y[1]
            \/ x[3] = y[3] /\ x[1] = y[1] /\ x[2] <= y[2]

\* the total size of SequenceMatcher.get_matching_blocks: the longest
\* match, then the same to its left and to its right
RECURSIVE MatchSize(_, _)
MatchSize(a, b) ==
    IF \A i \in 1..Len(a), j \in 1..Len(b) : a[i] # b[j] THEN 0
    ELSE LET x == LongestMatch(a, b)
         IN  x[3]
             + MatchSize(SubSeq(a, 1, x[1] - 1), SubSeq(b, 1, x[2] - 1))
             + MatchSize(SubSeq(a, x[1] + x[3], Len(a)),
                         SubSeq(b, x[2] + x[3], Len(b)))

\* difflib.SequenceMatcher(None, a, b).ratio() >= threshold / 100, the
\* ratio being 2 * matches / (len(a) + len(b)), and 1 for two empty strings
ratio_at_least(a, b, threshold) ==
    IF Len(a) + Len(b) = 0 THEN TRUE
    ELSE 200 * MatchSize(a, b) >= threshold * (Len(a) + Len(b))

\* list[-n:]
LastN(s, n) == IF Len(s) <= n THEN s ELSE SubSeq(s, Len(s) - n + 1, Len(s))

\* the for loop of deduplicate_articles comparing with history only
RECURSIVE dedup_loop_history_only(_, _, _, _, _)
dedup_loop_history_only(arts, recent, seen, uniq, threshold) ==
    IF arts = <<>> THEN [seen |-> seen, unique |-> uniq]
    ELSE LET norm == ahgen_normalize_title(arts[1].title)
             is_dupe == \E k \in 1..Len(recent) :
                            ratio_at_least(norm, recent[k], threshold)
         IN  IF norm = <<>> \/ is_dupe
             THEN dedup_loop_history_only(Tail(arts), recent, seen, uniq,
                                          threshold)
             ELSE dedup_loop_history_only(Tail(arts), recent, Append(seen, norm),
                                          Append(uniq, arts[1]), threshold)

\* the for loop of deduplicate_articles: `seen` and `unique` after it
RECURSIVE dedup_loop(_, _, _, _, _)
dedup_loop(arts, recent, seen, uniq, threshold) ==
    IF arts = <<>> THEN [seen |-> seen, unique |-> uniq]
    ELSE LET norm == ahgen_normalize_title(arts[1].title)
             is_dupe ==
                \/ \E k \in 1..Len(seen) :
                        ratio_at_least(norm, seen[k], threshold)
                \/ \E k \in 1..Len(recent) :
                        ratio_at_least(norm, recent[k], threshold)
         IN  IF norm = <<>> \/ is_dupe
             THEN dedup_loop(Tail(arts), recent, seen, uniq, threshold)
             ELSE dedup_loop(Tail(arts), recent, Append(seen, norm),
                             Append(uniq, arts[1]), threshold)

\* deduplicate_articles(articles, state, threshold): what it returns and
\* state["recent_titles"] afterwards
deduplicate_articles(arts, recent, threshold) ==
    LET r == dedup_loop(arts, recent, <<>>, <<>>, threshold)
    IN  [unique |-> r.unique,
         recent_titles |-> LastN(recent \o r.seen, WindowSize)]

\* titles: "Ab!", "aba", "ba" and "!"
Stories == {<<"A", "b", "!">>, <<"a", "b", "a">>, <<"b", "a">>, <<"!">>}

StoryBatches ==
    UNION {[1..n -> {[title |-> t, source |-> "36kr"] : t \in Stories}] :
           n \in 1..MaxBatch}

\* the normalized title of the k-th story accepted in earlier cycles: a
\* word that shares no character with another title
Earlier_title(k) == <<ToString(k)>>

\* run_cycle deduplicates what it fetched
Deduplicate ==
    /\ \E a \in StoryBatches :
        LET r == deduplicate_articles(a, recent_titles, Threshold)
        IN  /\ recent_titles' = r.recent_titles
            /\ returned' = Some(r.unique)
            /\ given' = Some([articles |-> a, window |-> recent_titles])
            /\ accepted' =
                 accepted \o [k \in 1..Len(r.unique) |->
                                ahgen_normalize_title(r.unique[k].title)]
    /\ UNCHANGED <<queue, clock, env, pc, batch, idx, counts, calls, cycles,
                   default_max_retries, race_vars, dedup_vars, analyze_vars>>

\* the state file is new, or holds the titles of earlier cycles, one short
\* of a full window
InitFuzzy ==
    /\ queue = <<>>
    /\ clock = 0
    /\ env = {}
    /\ pc = [d \in Drains |-> "idle"]
    /\ batch = [d \in Drains |-> <<>>]
    /\ idx = [d \in Drains |-> 1]
    /\ counts = [d \in Drains |-> Zero]
    /\ calls = <<>>
    /\ cycles = <<>>
    /\ default_max_retries = MaxRetries
    /\ pending = [d \in Drains |-> None]
    /\ overlap_allowed = FALSE
    /\ DedupIdle
    /\ AnalyzeIdle
    /\ \E n \in {0, WindowSize - 1} :
        recent_titles = [k \in 1..n |-> Earlier_title(k)]
    /\ accepted = recent_titles
    /\ given = None
    /\ returned = None

NextFuzzy == Deduplicate

SpecFuzzy == InitFuzzy /\ [][NextFuzzy]_vars

\* ---- drain_queue called again and again ----

\* posts of either platform and urgency, while the table has room
EnqueueLive ==
    \E platform \in Platforms, urgency \in Urgencies :
        /\ Len(queue) < MaxQueued
        /\ queue' = Append(queue,
                           NewRow(platform, urgency, None,
                                  default_max_retries, Now(queue, clock)))
        /\ calls' = Append(calls, <<>>)
        /\ cycles' = Append(cycles, 0)
        /\ UNCHANGED <<clock, env, pc, batch, idx, counts, default_max_retries>>
        /\ UNCHANGED <<race_vars, dedup_vars, analyze_vars, fuzzy_vars>>

NextLive == WaitForRetry \/ EnqueueLive \/ DrainAll \/ DrainItem \/ DrainReturn

\* the publish command runs again and again, each run goes through its
\* loop and returns, and time advances to the next retry
Fairness ==
    /\ WF_vars(DrainAll)
    /\ WF_vars(DrainItem)
    /\ WF_vars(DrainReturn)
    /\ WF_vars(WaitForRetry)

SpecLive == InitStore /\ [][NextLive]_vars /\ Fairness

\* ---- vocabulary of the properties ----

Terminal(i) == queue[i].status \in {"published", "failed"}

\* drain d is about to run the loop body for an item
AtItem(d) == pc[d] = "loop" /\ idx[d] <= Len(batch[d])
Current(d) == batch[d][idx[d]]

\* the step is one iteration of the for loop of drain d
ItemStep(d) == AtItem(d) /\ idx'[d] = idx[d] + 1

PlatformArgs == {None} \cup {Some(p) : p \in Platforms}

\* every list get_publishable can return in the current state, with the
\* arguments that give it
Results ==
    UNION {{[platform |-> p, limit |-> l, items |-> r] :
                r \in get_publishable(queue, Now(queue, clock), p, l)} :
           p \in PlatformArgs, l \in 1..MaxLimit}

\* C1: every item has one of the four statuses; a retry_queued item has
\* retry_count < max_retries and a failed item has retry_count >= max_retries.
C1_StatusInvariant ==
    \A i \in Ids :
        /\ queue[i].status \in {"queued", "retry_queued", "published", "failed"}
        /\ queue[i].status = "retry_queued" =>
                queue[i].retry_count < queue[i].max_retries
        /\ queue[i].status = "failed" =>
                queue[i].retry_count >= queue[i].max_retries

\* C1 witness: one item has exhausted three retries while another waits for
\* its last one.
C1_Witness ==
    \E i, j \in Ids :
        /\ queue[i].status = "failed" /\ queue[i].retry_count = 3
        /\ queue[j].status = "retry_queued" /\ queue[j].retry_count = 2

\* C2: published and failed are terminal: no step changes a field of a
\* terminal item, and the drain loop never reaches an item that is terminal.
C2_Terminal ==
    [][ /\ \A i \in Ids : Terminal(i) => queue'[i] = queue[i]
        /\ \A d \in Drains : AtItem(d) => ~Terminal(Current(d)) ]_vars

\* C2 witness: a cycle fetched after an item failed for good is dispatching
\* another item.
C2_Witness ==
    \E i \in Ids, d \in Drains :
        /\ queue[i].status = "failed" /\ cycles[i] = 3
        /\ AtItem(d)
        /\ \A k \in 1..Len(batch[d]) : batch[d][k] # i

\* the statuses of the entries of item i's publish_log, in order
LogStatuses(i) ==
    [k \in 1..Len(queue[i].publish_log) |-> queue[i].publish_log[k].status]

\* the publisher failed its first n calls for item i and succeeded in every
\* later one (so far as calls were made)
FailsFirst(i, n) == \A k \in 1..Len(calls[i]) : calls[i][k] = (k > n)

Scenario(i) == queue[i].fallback_body # None /\ queue[i].max_retries = 3

\* C3 as claimed: with a fallback and max_retries = 3, a publisher that fails
\* its first two calls gives retry_queued/1 after the first dispatching cycle,
\* retry_queued/2 after the second, published with a log of 2 failures and 1
\* success after the third.
C3_AsClaimed ==
    \A i \in Ids :
        Scenario(i) /\ FailsFirst(i, 2) =>
            /\ cycles[i] = 1 =>
                queue[i].status = "retry_queued" /\ queue[i].retry_count = 1
            /\ cycles[i] = 2 =>
                queue[i].status = "retry_queued" /\ queue[i].retry_count = 2
            /\ cycles[i] = 3 =>
                /\ queue[i].status = "published"
                /\ LogStatuses(i) = <<"failed", "failed", "published">>

\* C3 amended: with a fallback and max_retries = 3, a publisher that fails
\* every call of the first two cycles (primary and fallback, four calls) and
\* succeeds afterwards gives retry_queued/1, retry_queued/2, then published
\* with a log of exactly 2 failures and 1 success.
C3_Scenario ==
    \A i \in Ids :
        Scenario(i) /\ FailsFirst(i, 4) =>
            /\ cycles[i] = 1 =>
                queue[i].status = "retry_queued" /\ queue[i].retry_count = 1
            /\ cycles[i] = 2 =>
                queue[i].status = "retry_queued" /\ queue[i].retry_count = 2
            /\ cycles[i] = 3 =>
                /\ queue[i].status = "published"
                /\ LogStatuses(i) = <<"failed", "failed", "published">>

\* C3 witness: the third cycle of the scenario has published the item.
C3_Witness ==
    \E i \in Ids :
        /\ Scenario(i)
        /\ calls[i] = <<FALSE, FALSE, FALSE, FALSE, TRUE>>
        /\ cycles[i] = 3
        /\ queue[i].status = "published"

\* a value the publisher of plat requires is absent, or plat has no publisher
Unconfigured(plat) ==
    \/ plat \notin PUBLISHERS
    \/ \E k \in 1..Len(RequiredEnv(plat)) : RequiredEnv(plat)[k] \notin env

\* C4 as claimed: the loop body counts an item of an unregistered platform,
\* or of a platform lacking any value its publisher requires, as skipped and
\* leaves the item's row (status, retry_count, next_retry_at, publish_log,
\* error) as it was.
C4_SkipLeavesItem ==
    [][ \A d \in Drains :
            ItemStep(d) /\ Unconfigured(queue[Current(d)].platform) =>
                /\ counts'[d] = [counts[d] EXCEPT !.skipped = @ + 1]
                /\ queue'[Current(d)] = queue[Current(d)] ]_vars

C6_AtMostLimit == \A r \in Results : Len(r.items) <= r.limit

Prio(i) == queue[i].priority
Created(i) == queue[i].created_at

C9_OnlyPublishable ==
    \A r \in Results : \A k \in 1..Len(r.items) :
        LET row == queue[r.items[k]]
        IN  /\ \/ row.status = "queued"
               \/ /\ row.status = "retry_queued"
                  /\ \E t \in row.next_retry_at : Minute(t) <= clock
            /\ r.platform # None => row.platform = Get(r.platform)

\* C9 witness: an item is returned while a retry of the same platform is
\* still waiting for its time.
C9_Witness ==
    \E r \in Results, j \in Ids :
        /\ r.platform = Some(queue[j].platform)
        /\ queue[j].status = "retry_queued"
        /\ Minute(Get(queue[j].next_retry_at)) > clock
        /\ Len(r.items) = 1

\* the delay the claim gives to the k-th failure
ClaimedDelta(k) == CASE k = 1 -> 5 [] k = 2 -> 20 [] OTHER -> 80

\* C10 as claimed: for max_retries = 3 the k-th failed dispatch (k = 1, 2, 3)
\* leaves next_retry_at at 5, 20, 80 minutes after the failure time, and the
\* third leaves the item failed.
C10_AsClaimed ==
    \A i \in Ids :
        LET row == queue[i]
            k == row.retry_count
        IN  (/\ row.max_retries = 3
             /\ k \in 1..3
             /\ row.status \in {"retry_queued", "failed"}) =>
                /\ \E t \in row.next_retry_at :
                        Minute(t) = Minute(row.publish_log[k].at) + ClaimedDelta(k)
                /\ k = 3 => row.status = "failed"

\* the errors a publisher call for plat can raise in the current environment
Errors(plat) == {r.val : r \in {x \in publisher(plat, env) : ~x.ok}}

\* the step is a loop iteration of drain d in which the primary publish
\* raised and no fallback_body exists, or the fallback publish raised too
FailedDispatch(d) ==
    /\ ItemStep(d)
    /\ LET i == Current(d)
       IN  \/ /\ queue[i].fallback_body = None
              /\ calls'[i] = Append(calls[i], FALSE)
           \/ /\ queue[i].fallback_body # None
              /\ calls'[i] = calls[i] \o <<FALSE, FALSE>>

\* what the claim says of a failed dispatch, but for the error column:
\* retry_count rose by one, one failure entry was appended carrying the
\* failure detail (combined when the fallback was tried), the status follows
\* the new count, the cycle counted the item as failed
FailureRecorded(d) ==
    LET i == Current(d)
        row == queue[i]
        new == queue'[i]
        entry == new.publish_log[Len(new.publish_log)]
    IN  /\ new.retry_count = row.retry_count + 1
        /\ new.publish_log = Append(row.publish_log, entry)
        /\ entry.status = "failed"
        /\ IF row.fallback_body = None
           THEN entry.detail \in Errors(row.platform)
           ELSE \E e, f \in Errors(row.platform) : entry.detail = Combined(e, f)
        /\ new.status = IF new.retry_count < row.max_retries
                        THEN "retry_queued" ELSE "failed"
        /\ counts'[d] = [counts[d] EXCEPT !.failed = @ + 1]

\* the failure detail the last log entry of row carries
LastDetail(row) == row.publish_log[Len(row.publish_log)].detail

\* C11 as claimed: a failed dispatch (primary raised, and no fallback or the
\* fallback raised too) raises retry_count by exactly one, appends exactly
\* one failure entry, sets retry_queued below max_retries and failed
\* otherwise, counts the item as failed, and sets error to the failure detail.
C11_AsClaimed ==
    [][ \A d \in Drains :
            FailedDispatch(d) =>
                /\ FailureRecorded(d)
                /\ queue'[Current(d)].error =
                        Some(LastDetail(queue'[Current(d)])) ]_vars

\* C11 amended: as claimed, except that error is the failure detail only
\* while the item goes to retry_queued; when it goes to failed, error is
\* "Exhausted <max_retries> retries. Last: <failure detail>".
C11_FailurePath ==
    [][ \A d \in Drains :
            FailedDispatch(d) =>
                /\ FailureRecorded(d)
                /\ queue'[Current(d)].error =
                        IF queue'[Current(d)].status = "failed"
                        THEN Some(Exhausted(queue[Current(d)].max_retries,
                                            LastDetail(queue'[Current(d)])))
                        ELSE Some(LastDetail(queue'[Current(d)])) ]_vars

\* C11 witness: primary and fallback both raised in each of two cycles, the
\* second exhausting the item's two retries.
C11_Witness ==
    \E i \in Ids :
        /\ queue[i].fallback_body # None
        /\ calls[i] = <<FALSE, FALSE, FALSE, FALSE>>
        /\ queue[i].status = "failed"
        /\ queue[i].retry_count = 2
        /\ Len(queue[i].publish_log) = 2
        /\ queue[i].error =
              Some(Exhausted(2, Combined(<<"HTTPError">>, <<"HTTPError">>)))

IsPrefix(s, t) == Len(s) <= Len(t) /\ SubSeq(t, 1, Len(s)) = s

\* C13: publish_log is append-only: in every step (enqueue, skipped or
\* dispatched item, clock) each item's previous publish_log is a prefix of
\* its new publish_log.
C13_AppendOnly ==
    [][ \A i \in Ids :
            IsPrefix(queue[i].publish_log, queue'[i].publish_log) ]_vars

\* C13 witness: an item's log has grown to two failures and a success while
\* another item was enqueued after its first entry was written.
C13_Witness ==
    \E i, j \in Ids :
        /\ i # j
        /\ LogStatuses(i) = <<"failed", "failed", "published">>
        /\ ~Earlier(Created(j), queue[i].publish_log[1].at)

\* C14 as claimed: publish_log holds one entry per publish attempt (primary
\* or fallback) made for the item, and its last entry agrees with the
\* item's status.
C14_FullHistory ==
    \A i \in Ids :
        /\ Len(queue[i].publish_log) = Len(calls[i])
        /\ queue[i].publish_log # <<>> =>
              LET last == queue[i].publish_log[Len(queue[i].publish_log)]
              IN  IF last.status = "published"
                  THEN queue[i].status = "published"
                  ELSE queue[i].status \in {"retry_queued", "failed"}

\* C15: platform_id and published_at are set exactly when status is
\* published; error is unset when published, and set to a non-empty text
\* when retry_queued or failed.
C15_ColumnsFollowStatus ==
    \A i \in Ids :
        /\ queue[i].platform_id # None <=> queue[i].status = "published"
        /\ queue[i].published_at # None <=> queue[i].status = "published"
        /\ queue[i].status = "published" => queue[i].error = None
        /\ queue[i].status \in {"retry_queued", "failed"} =>
              queue[i].error # None /\ Get(queue[i].error) # <<>>

\* C15 witness: an item whose error had been set is published and its
\* error cleared, while another item has failed for good.
C15_Witness ==
    \E i, j \in Ids :
        /\ queue[i].status = "published" /\ queue[i].retry_count = 1
        /\ queue[i].error = None /\ queue[i].published_at # None
        /\ queue[j].status = "failed" /\ queue[j].platform_id = None

\* C12 as claimed: nothing that raises while an item is dispatched (the
\* publisher call, the fallback call, a queue-store write of mark_published
\* or mark_publish_failed) ends drain_queue before every later item of the
\* batch was dispatched.
C12_BatchCompletes ==
    \A d \in Drains : ~(pc[d] = "raised" /\ idx[d] < Len(batch[d]))

\* the failed dispatches among the publisher calls cs of an item (with a
\* fallback a dispatch fails when both of its calls fail)
RECURSIVE Failures(_, _)
Failures(cs, fb) ==
    IF cs = <<>> THEN 0
    ELSE IF cs[1] THEN Failures(Tail(cs), fb)
    ELSE IF ~fb THEN 1 + Failures(Tail(cs), fb)
    ELSE (IF cs[2] THEN 0 ELSE 1) + Failures(Tail(Tail(cs)), fb)

\* no mark_* call for item i is between its read and its update
Settled(i) == \A d \in DOMAIN pending : \A w \in pending[d] : w.id # i

\* an item that was published is retry_queued or failed again
MovedBack(i) ==
    queue[i].platform_id # None /\ queue[i].status \in {"retry_queued", "failed"}

\* a dispatch of item i left no entry in publish_log
LostEntry(i) == Settled(i) /\ Len(queue[i].publish_log) < cycles[i]

\* a failed dispatch of item i is missing from retry_count
LostIncrement(i) ==
    /\ Settled(i)
    /\ queue[i].retry_count < Failures(calls[i], queue[i].fallback_body # None)

\* C16: a published item moved back to retry_queued or failed, a lost
\* retry_count increment and a lost publish_log entry occur only where
\* drain_queue calls may overlap; with at most one drain active none of
\* them is reachable.
C16_RaceOnlyWhenOverlapping ==
    \A i \in Ids :
        (MovedBack(i) \/ LostEntry(i) \/ LostIncrement(i)) => overlap_allowed

\* C16 witness: two overlapping drains dispatched the same item; the one
\* that failed wrote last, from the row it had read before the other
\* published: the item is retry_queued with a platform_id, and the success
\* entry is gone from its log.
C16_Witness ==
    \E i \in Ids :
        /\ MovedBack(i)
        /\ LostEntry(i)
        /\ cycles[i] = 2
        /\ LogStatuses(i) = <<"failed">>
        /\ \A d \in Racers : pc[d] = "idle"

\* ---- deduplication properties ----

Norm(a) == normalize_title(a.title)

\* the age in minutes of a row of dedup_titles
Age(r) == clock - r.seen_at

\* a row with normalized title n was recorded within the trailing 30 days
RecordedInWindow(n) ==
    \E k \in 1..Len(dedup_titles) :
        /\ dedup_titles[k].title_norm = n
        /\ Age(dedup_titles[k]) <= WindowDays * DayMinutes

\* C17 as claimed: is_duplicate(title) is true exactly when a dedup record
\* with the same normalized title has its seen_at within the trailing 30
\* days.
C17_AsClaimed ==
    \A t \in Titles :
        is_duplicate(dedup_titles, t, clock).result
            <=> RecordedInWindow(normalize_title(t))

\* C17 amended: for a title that is not empty after normalization,
\* is_duplicate is true exactly when a record with the same normalized title
\* has its seen_at within the trailing 30 days (10 days old: rejected, 40
\* days old only: accepted); for a title that is empty after normalization
\* it is true whatever the records.
C17_Window ==
    \A t \in Titles :
        IF normalize_title(t) = <<>>
        THEN is_duplicate(dedup_titles, t, clock).result
        ELSE is_duplicate(dedup_titles, t, clock).result
                <=> RecordedInWindow(normalize_title(t))

\* C17 witness: one title was recorded 10 days ago and is a duplicate,
\* another was recorded 40 days ago only and is not.
C17_Witness ==
    \E j, k \in 1..Len(dedup_titles) :
        /\ Age(dedup_titles[j]) = 10 * DayMinutes
        /\ Age(dedup_titles[k]) = 40 * DayMinutes
        /\ is_duplicate(dedup_titles, Plain, clock).result
        /\ dedup_titles[j].title_norm = normalize_title(Plain)
        /\ ~is_duplicate(dedup_titles, Spaced, clock).result
        /\ dedup_titles[k].title_norm = normalize_title(Spaced)

\* the step is one iteration of the for loop of deduplicate
DedupStep == articles # <<>> /\ pos <= Len(articles) /\ pos' = pos + 1

\* the step accepts the current candidate and records its title now
AcceptedAndRecorded ==
    /\ unique' = Append(unique, articles[pos])
    /\ dedup_titles' =
         Append(dedup_titles,
                [title_norm |-> Norm(articles[pos]),
                 source |-> articles[pos].source, seen_at |-> clock])

Rejected == unique' = unique /\ dedup_titles' = dedup_titles

\* C18 as claimed: of the candidates of a batch whose titles are identical
\* after normalization (and not empty), the first is accepted and recorded
\* and every later one is rejected.
C18_AsClaimed ==
    [][ (DedupStep /\ Norm(articles[pos]) # <<>>) =>
            LET same == {m \in 1..Len(articles) :
                            Norm(articles[m]) = Norm(articles[pos])}
            IN  /\ (\E m \in same : m < pos) => Rejected
                /\ ((\E m \in same : m > pos) /\ ~\E m \in same : m < pos)
                        => AcceptedAndRecorded ]_vars

\* no two accepted candidates have the same normalized title
NoTwoAlike(u) ==
    \A j, k \in 1..Len(u) : j # k => Norm(u[j]) # Norm(u[k])

\* C18 amended: of the candidates of a batch whose titles are identical
\* after normalization at most one is accepted: a candidate that is
\* accepted is recorded, and once one has been accepted every later one is
\* rejected, so the accepted output never holds two items with the same
\* normalized title.
C18_AtMostOne ==
    [][ DedupStep =>
            /\ unique' # unique => AcceptedAndRecorded
            /\ (\E m \in 1..Len(unique) : Norm(unique[m]) = Norm(articles[pos]))
                    => Rejected
            /\ NoTwoAlike(unique') ]_vars

\* C18 witness: a batch of "Aa!" and "aA" has been processed; the first
\* was accepted and recorded, the second rejected.
C18_Witness ==
    /\ Len(articles) = 2 /\ pos = 3
    /\ articles[1].title = Shouted /\ articles[2].title = Plain
    /\ unique = <<articles[1]>>
    /\ RecordedInWindow(normalize_title(Shouted))

\* C19: for a title that is empty after normalization is_duplicate returns
\* true without a query to the store and record_title records nothing;
\* deduplicate never accepts such a candidate, and no row of dedup_titles
\* has an empty title_norm.
C19_EmptyIsDuplicate ==
    /\ \A t \in Titles :
            normalize_title(t) = <<>> =>
                /\ is_duplicate(dedup_titles, t, clock) =
                        [result |-> TRUE, queried |-> FALSE]
                /\ record_title(dedup_titles, t, "36kr", clock) = dedup_titles
    /\ \A k \in 1..Len(unique) : Norm(unique[k]) # <<>>
    /\ \A k \in 1..Len(dedup_titles) : dedup_titles[k].title_norm # <<>>

\* C19 witness: a batch whose first candidate is titled "!" has been
\* processed; only the second was accepted.
C19_Witness ==
    /\ Len(articles) = 2 /\ pos = 3
    /\ articles[1].title = <<"!">>
    /\ unique = <<articles[2]>>
    /\ Len(dedup_titles) = 1

\* the ways find_semantic_duplicates runs without a search result
Degraded == {"unconfigured", "embed_failed", "query_failed"}

\* C20: when the embedding backend is unconfigured or fails, or the vector
\* query fails, find_semantic_duplicates returns no matches, and the
\* candidate that passed the exact-title check is accepted and recorded.
C20_Degrades ==
    [][ DedupStep =>
            /\ \A o \in find_semantic_duplicates(articles[pos].title,
                                                 articles[pos].body,
                                                 vo_client, env) :
                    o.mode \in Degraded => o.matches = <<>>
            /\ (\E m \in sem' : m \in Degraded) => AcceptedAndRecorded ]_vars

\* C20 witness: the vector query failed for the second candidate of a
\* batch after the first had been searched, and both were accepted.
C20_Witness ==
    /\ Len(articles) = 2 /\ pos = 3
    /\ sem = Some("query_failed")
    /\ vo_client = "client"
    /\ unique = articles

\* ---- run_analyze properties ----

\* Stage 1 returned an enrichment for article i
Enriched(i) == \E k \in 1..Len(enriched) : enriched[k].id = i

\* the step is the return of a run_analyze that had fetched articles
AnalyzeReturns == an_pc = "finish" /\ an_pc' = "idle"

\* C21: when run_analyze returns, every article it fetched as pending is
\* analyzed if Stage 1 returned an enrichment for it and enrichment_failed
\* if Stage 1 dropped it; none is left pending, no dropped one is analyzed.
C21_FetchedAreSettled ==
    [][ AnalyzeReturns =>
            \A i \in all_ids :
                articles_table'[i].status =
                    IF Enriched(i) THEN "analyzed" ELSE "enrichment_failed" ]_vars

\* C21 witness: a run that fetched two articles has returned; Stage 1 had
\* enriched one and dropped the other.
C21_Witness ==
    /\ an_pc = "idle"
    /\ \E i, j \in 1..Len(articles_table) :
            /\ articles_table[i].status = "analyzed"
            /\ articles_table[i].relevance # None
            /\ articles_table[j].status = "enrichment_failed"
            /\ articles_table[j].relevance = None
            /\ articles_table[i].scraped_at = articles_table[j].scraped_at

\* ---- enqueue_post properties ----

\* the step inserts one row into publish_queue
EnqueueStep == Len(queue') = Len(queue) + 1

\* C22: enqueue_post creates an item with status queued, retry_count 0, an
\* empty publish_log and priority 1, 2, 3 for urgency high, medium, low, and
\* changes no existing item; every queue item, at any time, has a priority
\* in {1,2,3} that agrees with its stored urgency.
C22_Enqueue ==
    [][ /\ EnqueueStep =>
            LET new == queue'[Len(queue')]
            IN  /\ new.status = "queued"
                /\ new.retry_count = 0
                /\ new.publish_log = <<>>
                /\ SubSeq(queue', 1, Len(queue)) = queue
        /\ \A i \in 1..Len(queue') :
                /\ queue'[i].priority \in {1, 2, 3}
                /\ queue'[i].urgency = "high" => queue'[i].priority = 1
                /\ queue'[i].urgency = "medium" => queue'[i].priority = 2
                /\ queue'[i].urgency = "low" => queue'[i].priority = 3 ]_vars

\* C22 witness: a low-urgency post was enqueued after a high-urgency one
\* had failed once; the queue holds priorities 1 and 3.
C22_Witness ==
    \E i, j \in Ids :
        /\ queue[i].urgency = "high" /\ queue[i].priority = 1
        /\ queue[i].status = "retry_queued"
        /\ queue[j].urgency = "low" /\ queue[j].priority = 3
        /\ queue[j].status = "queued" /\ queue[j].publish_log = <<>>
        /\ ~Earlier(Created(j), queue[i].publish_log[1].at)

\* ---- retry schedule properties ----

\* the minutes between the last failure recorded in row's log and the retry
\* scheduled for it
Delay(row) ==
    Minute(Get(row.next_retry_at))
        - Minute(row.publish_log[Len(row.publish_log)].at)

\* C23: whenever mark_publish_failed moves an item with retry_count = k to
\* retry_queued, next_retry_at is the failure time plus 5 * 4^k minutes: it
\* is strictly after the failure time, and the delay is strictly greater
\* than the delay of the item's previous failure.
C23_Backoff ==
    [][ \A d \in Drains :
            (ItemStep(d) /\ FailedDispatch(d)
                /\ queue'[Current(d)].status = "retry_queued") =>
                LET row == queue[Current(d)]
                    new == queue'[Current(d)]
                IN  /\ Delay(new) = 5 * Pow(4, row.retry_count)
                    /\ Delay(new) > 0
                    /\ row.status = "retry_queued" => Delay(new) > Delay(row) ]_vars

\* C23 witness: an item failed at minute 0 and was retried at minute 5,
\* where it failed again and was scheduled for minute 25.
C23_Witness ==
    \E i \in Ids :
        /\ queue[i].status = "retry_queued" /\ queue[i].retry_count = 2
        /\ Minute(queue[i].publish_log[1].at) = 0
        /\ Minute(queue[i].publish_log[2].at) = 5
        /\ Minute(Get(queue[i].next_retry_at)) = 25

\* ---- drain cycle properties ----

\* the step is drain d fetching a batch that is not empty
CycleStarts(d) == pc[d] = "idle" /\ pc'[d] = "loop"

\* the publisher calls the step made for item i
NewCalls(i) == SubSeq(calls'[i], Len(calls[i]) + 1, Len(calls'[i]))

\* C24: a drain_queue call dispatches each item at most once, with one
\* primary attempt and at most one fallback attempt: its batch holds no item
\* twice and stays as fetched, and each loop step calls the publisher for
\* the current item only. An item that failed is retry_queued (or failed)
\* and is fetched again only by a cycle that starts at or after its
\* next_retry_at.
C24_NoRetryWithinCycle ==
    [][ \A d \in Drains :
            /\ CycleStarts(d) =>
                  /\ \A a, b \in 1..Len(batch'[d]) :
                         a # b => batch'[d][a] # batch'[d][b]
                  /\ \A a \in 1..Len(batch'[d]) :
                         LET row == queue[batch'[d][a]]
                         IN  \/ row.status = "queued" /\ row.retry_count = 0
                             \/ /\ row.status = "retry_queued"
                                /\ Minute(Get(row.next_retry_at)) <= clock
            /\ (pc[d] = "loop" /\ pc'[d] = "loop") => batch'[d] = batch[d]
            /\ ItemStep(d) =>
                  /\ \A i \in Ids : i # Current(d) => calls'[i] = calls[i]
                  /\ cycles'[Current(d)] <= cycles[Current(d)] + 1
                  /\ NewCalls(Current(d)) \in
                         {<<>>, <<TRUE>>, <<FALSE>>, <<FALSE, TRUE>>,
                          <<FALSE, FALSE>>}
                  /\ queue'[Current(d)].status = "retry_queued" =>
                         Minute(Get(queue'[Current(d)].next_retry_at)) > clock ]_vars

\* C24 witness: a cycle is about to dispatch, for the second time, an item
\* that failed in an earlier cycle and whose retry time has come, after it
\* dispatched another item that has just failed and waits for its own.
C24_Witness ==
    \E d \in Drains :
        /\ AtItem(d) /\ idx[d] = 2
        /\ queue[batch[d][1]].status = "retry_queued"
        /\ Minute(Get(queue[batch[d][1]].next_retry_at)) > clock
        /\ queue[Current(d)].status = "retry_queued"
        /\ cycles[Current(d)] = 1
        /\ Minute(Get(queue[Current(d)].next_retry_at)) <= clock

\* ---- run_scrape properties ----

\* an article with an embedding was scraped within the trailing 30 days
EmbeddedInWindow ==
    \E i \in 1..Len(articles_table) :
        /\ articles_table[i].embedding
        /\ clock - articles_table[i].scraped_at <= WindowDays * DayMinutes

\* C25 as claimed: the semantic check compares a candidate with the
\* articles of the trailing 30 days only: a candidate that passes the
\* exact-title check is accepted when every stored article that could match
\* it is older than the window.
C25_OnlyWindowMatches ==
    [][ (/\ DedupStep
         /\ articles[pos].title # <<>>
         /\ ~is_duplicate(dedup_titles, articles[pos].title, clock).result
         /\ ~EmbeddedInWindow) => AcceptedAndRecorded ]_vars

\* no scrape run is between deduplicate and insert_articles
ScrapeIdle == articles = <<>>

\* C30 as claimed: after any run of run_scrape, also one in which
\* insert_articles raised, every normalized title recorded in dedup_titles
\* belongs to an article that was inserted.
C30_RecordsHaveArticles ==
    ScrapeIdle =>
        \A k \in 1..Len(dedup_titles) :
            \E i \in 1..Len(articles_table) :
                articles_table[i].title_norm = dedup_titles[k].title_norm

\* ---- fuzzy deduplication properties ----

\* the normalized titles of the candidates in the list u
Norms(u) == [k \in 1..Len(u) |-> ahgen_normalize_title(u[k].title)]

\* the step is a call of deduplicate_articles
FuzzyCall == given' # None /\ returned' # None

\* C26: after any sequence of calls recent_titles has at most 500 entries
\* and is the last 500 normalized titles accepted; within one call no
\* accepted title reaches the threshold against an earlier accepted title
\* of the batch or a title of the window the call started with; no
\* candidate with an empty normalized title is accepted.
C26_FuzzyDedup ==
    [][ FuzzyCall =>
            LET u == Norms(Get(returned'))
            IN  /\ Len(recent_titles') <= 500
                /\ recent_titles' = LastN(accepted', 500)
                /\ \A k \in 1..Len(u) :
                      /\ u[k] # <<>>
                      /\ \A j \in 1..(k - 1) :
                            ~ratio_at_least(u[k], u[j], Threshold)
                      /\ \A j \in 1..Len(recent_titles) :
                            ~ratio_at_least(u[k], recent_titles[j], Threshold) ]_vars

\* C26 witness: a call on a full window was given "ab" and "aba" and
\* accepted the first only; the oldest title has left the window.
C26_Witness ==
    /\ given # None /\ returned # None
    /\ Len(Get(given).window) = 500
    /\ Norms(Get(given).articles) = <<<<"a", "b">>, <<"a", "b", "a">>>>
    /\ Norms(Get(returned)) = <<<<"a", "b">>>>
    /\ Len(recent_titles) = 500
    /\ recent_titles[1] = Earlier_title(2)
    /\ recent_titles[500] = <<"a", "b">>

\* ---- delivery properties ----

\* C27: once a publisher call for an item has returned successfully no
\* further publisher call is made for that item, in the same cycle or in a
\* later one, also when the store write of mark_published raises.
C27_AtMostOneDelivery ==
    \A i \in 1..Len(calls) :
        \A k \in 1..(Len(calls[i]) - 1) : ~calls[i][k]

\* ---- retry budget properties ----

Dispatchable(i) ==
    /\ i \in Ids
    /\ queue[i].status \in {"queued", "retry_queued"}
    /\ queue[i].platform \in PUBLISHERS
    /\ env_keys(queue[i].platform) \in env

\* C28: while drain_queue is invoked again and again and time advances,
\* every queued or retry_queued item of a registered and configured
\* platform is eventually published or failed, whatever items of skipped
\* platforms are in the queue.
C28_NoStarvation ==
    \A i \in 1..MaxQueued : Dispatchable(i) ~> (i \in Ids /\ Terminal(i))

====
